---- MODULE Spec2Model ----
(***************************************************************************)
(* Model of scraper_to_sheets.py: the HELB mentions scraper that fetches   *)
(* candidates from GNews, RSS feeds and HTML pages, deduplicates them      *)
(* against the Google sheet and within the run, and appends the result.    *)
(*                                                                         *)
(* Strings are sequences of tokens: a token is a word (or a whole URL or   *)
(* date text) or the single blank " ".  "" is the empty sequence.          *)
(* The sheet is the sequence of its rows; a row is a sequence of six       *)
(* cells.  The sheet stores cells as written.                              *)
(*                                                                         *)
(* Source lines 417-424 hold an `except Exception:` whose body is only the *)
(* comment `# ignore`; the model reads it as the `pass` the comment means. *)
(***************************************************************************)
EXTENDS Integers, Sequences, FiniteSets, TLC

\* ------------------------------------------------------------------ bounds
MaxRuns == 2
MaxItems == 2

\* ------------------------------------------------------------- strings
RECURSIVE LStrip(_)
LStrip(s) == IF s # <<>> /\ Head(s) = " " THEN LStrip(Tail(s)) ELSE s

RECURSIVE RStrip(_)
RStrip(s) ==
    IF s # <<>> /\ s[Len(s)] = " " THEN RStrip(SubSeq(s, 1, Len(s) - 1)) ELSE s

\* str.strip()
Strip(s) == RStrip(LStrip(s))

\* case folding of one token (re.IGNORECASE)
Lower(w) ==
    CASE w = "HELB" -> "helb"
      [] w = "Helb" -> "helb"
      [] w = "Loans" -> "loans"
      [] w = "Student" -> "student"
      [] w = "Kenya" -> "kenya"
      [] OTHER -> w

\* ------------------------------------------------------------- config
HEADERS == << <<"title">>, <<"published">>, <<"source">>, <<"summary">>,
              <<"link">>, <<"tonality">> >>

KEYWORDS == { <<"helb">>,
              <<"higher", " ", "education", " ", "loans", " ", "board">>,
              <<"loan", " ", "board">>,
              <<"student", " ", "loans", " ", "kenya">> }

BATCH == 50

\* does keyword k occur in text at token position i
MatchAt(text, k, i) ==
    /\ i + Len(k) - 1 <= Len(text)
    /\ \A j \in 1..Len(k) : Lower(text[i + j - 1]) = k[j]

contains_keywords(text) ==
    \E k \in KEYWORDS : \E i \in 1..Len(text) : MatchAt(text, k, i)

\* ------------------------------------------------------------- dates
NaT == [nat |-> TRUE]

DaysInMonth(y, m) ==
    IF m = 2 THEN (IF y % 4 = 0 /\ (y % 100 # 0 \/ y % 400 = 0) THEN 29 ELSE 28)
    ELSE IF m \in {4, 6, 9, 11} THEN 30 ELSE 31

Pad2(n) == IF n < 10 THEN "0" \o ToString(n) ELSE ToString(n)

\* Timestamp.strftime("%Y-%m-%d")
strftime(ts) == << ToString(ts.y) \o "-" \o Pad2(ts.m) \o "-" \o Pad2(ts.d) >>

\* pd.to_datetime(text, errors="coerce") on the date texts the sources supply:
\* an RFC-822 date and an ISO date parse, anything else (the empty string, free
\* text, a day that is not in the calendar) is coerced to NaT
to_datetime(text) ==
    CASE text = <<"Fri, 03 Jan 2025 08:00:00 GMT">> -> [nat |-> FALSE, y |-> 2025, m |-> 1, d |-> 3]
      [] text = <<"2025-01-03">> -> [nat |-> FALSE, y |-> 2025, m |-> 1, d |-> 3]
      [] text = <<"2025-02-28T21:15:00+03:00">> -> [nat |-> FALSE, y |-> 2025, m |-> 2, d |-> 28]
      [] OTHER -> NaT

isna(ts) == ts.nat

\* ------------------------------------------------------------- sentiment
\* sia.polarity_scores(text)["compound"], in hundredths; the scorer is a black
\* box that may raise on a text
ScorerRaises(text) == \E i \in 1..Len(text) : text[i] = "<unscorable>"

Compound(text) ==
    IF \E i \in 1..Len(text) : Lower(text[i]) = "relief" THEN 5
    ELSE IF \E i \in 1..Len(text) : Lower(text[i]) = "crisis" THEN -5
    ELSE 0

classify_sentiment(text) ==
    LET score == Compound(text)
    IN  IF score >= 5 THEN <<"Positive">>
        ELSE IF score <= -5 THEN <<"Negative">> ELSE <<"Neutral">>

\* ------------------------------------------------------------- links
AbsoluteUrls == { "https://nation.africa/a1", "https://nation.africa/a3",
                  "https://nation.africa/a4" }

\* scheme and host of a page address
Origin(base_url) ==
    CASE base_url = "https://nation.africa/kenya" -> "https://nation.africa"
      [] OTHER -> base_url

make_absolute(base_url, link) ==
    IF link = <<>> THEN <<>>
    ELSE LET l == Strip(link)
         IN  IF l = <<>> THEN <<base_url>>
             ELSE IF l[1] \in {"//nation.africa/a1"} THEN <<"https:" \o l[1]>>
             ELSE IF l[1] \in AbsoluteUrls THEN l
             ELSE <<Origin(base_url) \o l[1]>>

\* ------------------------------------------------------------- upstream
\* What a source can hold: raw entries with the fields every adapter reads
\* (title, summary/description, link/url/href, published date text).
ArtLoans ==
    [title |-> <<"HELB", " ", "loans">>, summary |-> <<>>,
     link |-> <<" ", "https://nation.africa/a1">>,
     published |-> <<"Fri, 03 Jan 2025 08:00:00 GMT">>]
ArtNoLink ==
    [title |-> <<"HELB", " ", "loans">>, summary |-> <<>>,
     link |-> <<>>, published |-> <<"unknown">>]
ArtNoLinkDated ==
    [title |-> <<"HELB", " ", "loans">>, summary |-> <<>>,
     link |-> <<>>, published |-> <<"2025-01-03">>]
ArtSummaryOnly ==
    [title |-> <<"Budget", " ", "news">>,
     summary |-> <<"Student", " ", "Loans", " ", "Kenya", " ", "relief">>,
     link |-> <<"/a2">>, published |-> <<"2025-02-30">>]
ArtIrrelevant ==
    [title |-> <<"subhelbish", " ", "news">>, summary |-> <<>>,
     link |-> <<"https://nation.africa/a3">>, published |-> <<>>]
ArtUnscorable ==
    [title |-> <<"Helb", " ", "crisis">>, summary |-> <<"<unscorable>">>,
     link |-> <<"https://nation.africa/a4">>,
     published |-> <<"2025-02-28T21:15:00+03:00">>]
ArtBadDate ==
    [title |-> <<"helb", " ", "relief">>, summary |-> <<>>,
     link |-> <<"/a5">>, published |-> <<"yesterday">>]

Articles == {ArtLoans, ArtNoLink, ArtNoLinkDated, ArtSummaryOnly, ArtIrrelevant,
             ArtUnscorable, ArtBadDate}

\* a fetch returns entries, or fails (an exception, a non-200 answer); pages
\* tells whether the article pages an HTML source links to can be fetched
Fail == [ok |-> FALSE, items |-> <<>>, pages |-> TRUE]

RECURSIVE SeqsUpTo(_, _)
SeqsUpTo(S, n) ==
    IF n = 0 THEN {<<>>}
    ELSE LET shorter == SeqsUpTo(S, n - 1)
         IN  shorter \cup {Append(q, x) : q \in shorter, x \in S}

\* the sources, in the order the run visits them
GNEWS == "GNews"
RSS_FEEDS == <<"Nation (general)">>
HTML_SOURCES == <<[name |-> "Nation", base_url |-> "https://nation.africa/kenya"]>>

HtmlNames == {HTML_SOURCES[k].name : k \in 1..Len(HTML_SOURCES)}

SourceNames ==
    {GNEWS} \cup {RSS_FEEDS[i] : i \in 1..Len(RSS_FEEDS)}
            \cup {HTML_SOURCES[i].name : i \in 1..Len(HTML_SOURCES)}

\* what one source can return with at most n entries drawn from arts
Results(s, arts, n) ==
    {[ok |-> TRUE, items |-> q, pages |-> TRUE] : q \in SeqsUpTo(arts, n)}
        \cup {[ok |-> TRUE, items |-> q, pages |-> FALSE] :
                 q \in IF s \in HtmlNames THEN SeqsUpTo(arts, n) \ {<<>>} ELSE {}}
        \cup {Fail}

Items(res) == res.items

\* one fetch cycle's content of the sources S, n entries in all
RECURSIVE Contents(_, _, _)
Contents(S, arts, n) ==
    IF S = {} THEN {<<>>}
    ELSE LET s == CHOOSE x \in S : TRUE
         IN  UNION { {(s :> r) @@ rest : rest \in Contents(S \ {s}, arts, n - Len(Items(r)))} :
                       r \in Results(s, arts, n) }

\* one fetch cycle's content of every source: MaxItems entries in all, drawn
\* from arts
UpstreamsOf(arts) == Contents(SourceNames, arts, MaxItems)

\* a fetch cycle that yields a batch of five rows: four GNews articles, a feed
\* that fails and an HTML headline whose article page cannot be fetched
FiveRows ==
    (GNEWS :> [ok |-> TRUE, pages |-> TRUE,
               items |-> <<ArtLoans, ArtNoLink, ArtNoLinkDated, ArtSummaryOnly>>])
    @@ (RSS_FEEDS[1] :> Fail)
    @@ (HTML_SOURCES[1].name :> [ok |-> TRUE, pages |-> FALSE, items |-> <<ArtUnscorable>>])

Upstreams == UpstreamsOf(Articles) \cup {FiveRows}

\* the entries of the repeated runs: one with a link, one without, one that
\* the scorer fails on
RepeatArticles == {ArtLoans, ArtNoLink, ArtUnscorable}
RepeatUpstreams == UpstreamsOf(RepeatArticles)

\* ------------------------------------------------------------- adapters
Row(title, published, source, summary, link, tonality) ==
    <<title, published, source, summary, link, tonality>>

\* Published without the conversion
PublishedRaw(published_raw) == published_raw

Published(published_raw) ==
    LET published_parsed == to_datetime(published_raw)
    IN  IF ~isna(published_parsed) THEN strftime(published_parsed) ELSE published_raw

\* process_gnews(a): the row of one GNews article; it raises when the scorer does
gnews_raises(a) ==
    LET summary == Strip(a.summary) IN
    ScorerRaises(IF summary # <<>> THEN summary ELSE Strip(a.title))

process_gnews(a) ==
    LET title == Strip(a.title)
        summary == Strip(a.summary)
    IN  Row(title, Published(Strip(a.published)), <<"Daily", " ", "Nation">>, summary,
            Strip(a.link), classify_sentiment(IF summary # <<>> THEN summary ELSE title))

\* process_rss(feed_name, url): the rows of the relevant entries of one feed;
\* it raises when the scorer raises on a relevant entry
RssRelevant(entry) == contains_keywords(Strip(entry.title) \o <<" ">> \o Strip(entry.summary))

rss_raises(entries) ==
    \E i \in 1..Len(entries) : RssRelevant(entries[i]) /\ gnews_raises(entries[i])

process_rss(feed_name, entries) ==
    LET kept == SelectSeq(entries, RssRelevant)
    IN  [i \in 1..Len(kept) |->
            LET title == Strip(kept[i].title)
                summary == Strip(kept[i].summary)
            IN  Row(title, Published(Strip(kept[i].published)), <<feed_name>>, summary,
                    Strip(kept[i].link),
                    classify_sentiment(IF summary # <<>> THEN summary ELSE title))]

\* extract_date_from_soup: the date of the <time> tag or of a date meta tag of
\* the article page, "" when there is none or it does not parse
extract_date_from_soup(dt) ==
    IF dt # <<>> /\ ~isna(to_datetime(dt)) THEN strftime(to_datetime(dt)) ELSE <<>>

\* extract_headlines_from_page: process_candidate over the anchors of the page in
\* the order the heuristics visit them.  `seen` are the links already taken on
\* this page; when the article page cannot be fetched the row keeps an empty
\* date and summary; a raising scorer ends the scan with the rows found so far
\* (the except clause of line 330).
RECURSIVE ScanPage(_, _, _, _, _, _)
ScanPage(anchors, pages, source_name, base_url, seen, rows) ==
    IF anchors = <<>> THEN rows
    ELSE LET a == Head(anchors)
             title == Strip(a.title)
             link == make_absolute(base_url, a.link)
             published == IF pages THEN extract_date_from_soup(a.published) ELSE <<>>
             summary == IF pages THEN Strip(a.summary) ELSE <<>>
             text == IF summary # <<>> THEN summary ELSE title
         IN  IF title = <<>> \/ ~contains_keywords(title) \/ link = <<>> \/ link \in seen
             THEN ScanPage(Tail(anchors), pages, source_name, base_url, seen, rows)
             ELSE IF ScorerRaises(text) THEN rows
             ELSE ScanPage(Tail(anchors), pages, source_name, base_url, seen \cup {link},
                           Append(rows, Row(title, published, <<source_name>>, summary,
                                            link, classify_sentiment(text))))

extract_headlines_from_page(source_name, base_url, page) ==
    ScanPage(Items(page), page.pages, source_name, base_url, {}, <<>>)

\* the date text a row was made from.  GNews and RSS: published_raw of the
\* entry (lines 203, 229); HTML: the text of the <time> or date meta tag of the
\* article page (lines 155, 176), nothing when the page was not fetched
GNewsRelevant(a) ==
    contains_keywords(process_gnews(a)[1] \o <<" ">> \o process_gnews(a)[4])

GNewsRaw(articles) ==
    LET kept == SelectSeq(articles, GNewsRelevant)
    IN  [n \in 1..Len(kept) |-> Strip(kept[n].published)]

RssRaw(entries) ==
    LET kept == SelectSeq(entries, RssRelevant)
    IN  [n \in 1..Len(kept) |-> Strip(kept[n].published)]

\* the anchor of the page that process_candidate made the row from: the first
\* one with the row's link that passes the checks of lines 270-274
HtmlAnchor(base_url, page, row) ==
    LET anchors == Items(page)
        Taken(n) == /\ Strip(anchors[n].title) # <<>>
                    /\ contains_keywords(Strip(anchors[n].title))
                    /\ make_absolute(base_url, anchors[n].link) = row[5]
    IN  anchors[CHOOSE n \in 1..Len(anchors) :
                    Taken(n) /\ \A k \in 1..(n - 1) : ~Taken(k)]

HtmlRaw(base_url, page, rows) ==
    [n \in 1..Len(rows) |->
        IF page.pages THEN HtmlAnchor(base_url, page, rows[n]).published ELSE <<>>]

\* ------------------------------------------------------------- the sheet
\* worksheet.get_all_records(): the first row gives the keys, every other row is
\* a record.  Get is dict.get on such a record.
Keys(values) == IF values = <<>> THEN <<>> ELSE values[1]
RecordRows(values) == IF values = <<>> THEN <<>> ELSE Tail(values)

HasKey(keys, name) == \E j \in 1..Len(keys) : keys[j] = <<name>>

Get(keys, r, name, default) ==
    IF HasKey(keys, name)
    THEN r[CHOOSE j \in 1..Len(keys) :
              keys[j] = <<name>> /\ \A k \in (j + 1)..Len(keys) : keys[k] # <<name>>]
    ELSE default

\* ExistingLinks reading a column the sheet does not have
ExistingLinksFromUrl(values) ==
    LET keys == Keys(values)
        recs == RecordRows(values)
    IN  {Strip(Get(keys, recs[n], "url", <<>>)) :
            n \in {m \in 1..Len(recs) : Get(keys, recs[m], "url", <<>>) # <<>>}}

ExistingLinks(values) ==
    LET keys == Keys(values)
        recs == RecordRows(values)
    IN  {Strip(Get(keys, recs[n], "link", <<>>)) :
            n \in {m \in 1..Len(recs) : Get(keys, recs[m], "link", <<>>) # <<>>}}

\* ExistingSigs reading the date from a column the sheet does not have
ExistingSigsFromDate(values) ==
    LET keys == Keys(values)
        recs == RecordRows(values)
    IN  {<<Strip(Get(keys, recs[n], "title", <<>>)),
           Strip(Get(keys, recs[n], "date", <<>>))>> : n \in 1..Len(recs)}

ExistingSigs(values) ==
    LET keys == Keys(values)
        recs == RecordRows(values)
    IN  {<<Strip(Get(keys, recs[n], "title", <<>>)),
           Strip(Get(keys, recs[n], "published", <<>>))>> : n \in 1..Len(recs)}

\* ------------------------------------------------------------- state
VARIABLES
    pc,              \* where the script is
    run,             \* runs started so far
    backfill,        \* args.backfill of the current run
    upstream,        \* what each source holds during the current run
    store,           \* the worksheet: its rows, the header row included
    existing_links, existing_sigs,
    new_rows, final_rows,
    src,             \* index of the next RSS feed or HTML source
    b,               \* start of the current batch in final_rows (0-based)
    i,               \* position in the batch during the row-by-row fallback
    store0,          \* history: the worksheet when the run started
    fetched,         \* history: the sources this run has fetched
    rejected,        \* history: positions of final_rows whose row write failed
    hdr,             \* history: what happened to the header write of this run
    last,            \* history: how the previous run went
    forced,          \* history: some run so far had --backfill
    startup,         \* history: how the startup of this run went
    fallback,        \* history: a batch write of this run failed
    cands,           \* history: the relevant rows the adapters produced in this run
    raws             \* history: the date text each of those rows was made from

vars == <<pc, run, backfill, upstream, store, existing_links, existing_sigs,
          new_rows, final_rows, src, b, i, store0, fetched, rejected, hdr, last,
          forced, startup, fallback, cands, raws>>

NoUpstream == [s \in SourceNames |-> [ok |-> TRUE, items |-> <<>>, pages |-> TRUE]]

\* a sheet in the documented format: empty, or headed by the header row
Proper(values) == values = <<>> \/ values[1] = HEADERS

SeedRows == <<process_gnews(ArtLoans), process_gnews(ArtNoLink)>>

InitStores == { <<>>, <<HEADERS>>, <<HEADERS>> \o SeedRows }

Init ==
    /\ pc = "idle"
    /\ run = 0
    /\ backfill = FALSE
    /\ upstream = NoUpstream
    /\ store \in InitStores
    /\ existing_links = {}
    /\ existing_sigs = {}
    /\ new_rows = <<>>
    /\ final_rows = <<>>
    /\ src = 1
    /\ b = 0
    /\ i = 1
    /\ store0 = store
    /\ fetched = {}
    /\ rejected = {}
    /\ hdr = "none"
    /\ last = [done |-> FALSE, same |-> FALSE, backfill |-> FALSE,
               clean |-> FALSE, proper |-> FALSE, grew |-> FALSE]
    /\ forced = FALSE
    /\ startup = "none"
    /\ fallback = FALSE
    /\ cands = <<>>
    /\ raws = <<>>

\* ------------------------------------------------------------- startup
Ended == pc \in {"idle", "done", "exit1", "crashed"}

\* the bookkeeping every start of the script shares
Begin(bf, up) ==
    /\ Ended
    /\ run' = run + 1
    /\ backfill' = bf
    /\ upstream' = up
    /\ new_rows' = <<>>
    /\ final_rows' = <<>>
    /\ src' = 1
    /\ b' = 0
    /\ i' = 1
    /\ store0' = store
    /\ fetched' = {}
    /\ rejected' = {}
    /\ hdr' = "none"
    /\ last' = [done |-> pc = "done", same |-> up = upstream, backfill |-> backfill,
                clean |-> rejected = {} /\ hdr # "failed", proper |-> Proper(store0),
                grew |-> store # store0]
    /\ forced' = (forced \/ bf)
    /\ fallback' = FALSE
    /\ cands' = <<>>
    /\ raws' = <<>>
    /\ UNCHANGED store

\* lines 91-93: service_account.json is missing
MissingCredentialsAt(limit) ==
    /\ Ended
    /\ run < limit
    /\ \E bf \in BOOLEAN : Begin(bf, upstream)
    /\ startup' = "no credentials"
    /\ pc' = "exit1"
    /\ UNCHANGED <<existing_links, existing_sigs>>

\* OpenSheetFailsAt without the sys.exit(1)
OpenSheetFailsGoesOn(limit) ==
    /\ Ended
    /\ run < limit
    /\ \E bf \in BOOLEAN : Begin(bf, upstream)
    /\ startup' = "sheet not opened"
    /\ existing_links' = {}
    /\ existing_sigs' = {}
    /\ pc' = "gnews"

\* lines 98-106: opening the spreadsheet raises
OpenSheetFailsAt(limit) ==
    /\ Ended
    /\ run < limit
    /\ \E bf \in BOOLEAN : Begin(bf, upstream)
    /\ startup' = "sheet not opened"
    /\ pc' = "exit1"
    /\ UNCHANGED <<existing_links, existing_sigs>>

\* line 109: get_all_records raises; nothing catches it
ReadRecordsFailsAt(limit) ==
    /\ Ended
    /\ run < limit
    /\ \E bf \in BOOLEAN : Begin(bf, upstream)
    /\ startup' = "sheet not read"
    /\ pc' = "crashed"
    /\ UNCHANGED <<existing_links, existing_sigs>>

\* lines 84-115: the flags are parsed, the sheet is opened and read
StartupAt(limit, ups) ==
    /\ Ended
    /\ run < limit
    /\ \E bf \in BOOLEAN, up \in ups : Begin(bf, up)
    /\ existing_links' = ExistingLinks(store)
    /\ existing_sigs' = ExistingSigs(store)
    /\ startup' = "ok"
    /\ pc' = "gnews"

\* one invocation of the script
MissingCredentials == MissingCredentialsAt(1)
OpenSheetFails == OpenSheetFailsAt(1)
ReadRecordsFails == ReadRecordsFailsAt(1)
Startup == StartupAt(1, Upstreams)

\* the script invoked again and again (the scheduled scraper)
MissingCredentialsAgain == MissingCredentialsAt(MaxRuns)
OpenSheetFailsAgain == OpenSheetFailsAt(MaxRuns)
ReadRecordsFailsAgain == ReadRecordsFailsAt(MaxRuns)
StartupAgain == StartupAt(MaxRuns, RepeatUpstreams)

\* ------------------------------------------------------------- collect
\* InStore without the check of the links
InStoreSigsOnly(row) ==
    Strip(row[5]) = <<>> /\ <<Strip(row[1]), Strip(row[2])>> \in existing_sigs

\* lines 343-348 (and 364-368, 384-388): the check against the sheet
InStore(row) ==
    LET link == Strip(row[5])
    IN  \/ link # <<>> /\ link \in existing_links
        \/ link = <<>> /\ <<Strip(row[1]), Strip(row[2])>> \in existing_sigs

\* StoreCheck that ignores --backfill
StoreCheckAlways(row) == InStore(row)

\* lines 343, 364, 384: the check is skipped under --backfill
StoreCheck(row) == ~backfill /\ InStore(row)

\* the row as the collect loops put it in new_rows: the link stripped
Collected(row) == Row(row[1], row[2], row[3], row[4], Strip(row[5]), row[6])

RelevantGNews(row) == contains_keywords(row[1] \o <<" ">> \o row[4])
KeepGNews(row) == ~StoreCheck(row) /\ RelevantGNews(row)
KeepRow(row) == ~StoreCheck(row)

MapRows(rows) == [n \in 1..Len(rows) |-> Collected(rows[n])]

\* lines 189-196 and 339-350: GNews is fetched (a failing fetch gives no
\* articles) and every article is processed, checked and filtered
CollectGNews ==
    /\ pc = "gnews"
    /\ LET articles == Items(upstream[GNEWS])
           rows == [n \in 1..Len(articles) |-> process_gnews(articles[n])]
       IN  /\ \A n \in 1..Len(articles) : ~gnews_raises(articles[n])
           /\ new_rows' = new_rows \o MapRows(SelectSeq(rows, KeepGNews))
           /\ cands' = cands \o SelectSeq(rows, RelevantGNews)
           /\ raws' = raws \o GNewsRaw(articles)
    /\ fetched' = fetched \cup {GNEWS}
    /\ pc' = "rss"
    /\ src' = 1
    /\ UNCHANGED <<run, backfill, upstream, store, existing_links, existing_sigs,
                   final_rows, b, i, store0, rejected, hdr, last,
                   forced, startup, fallback>>

\* line 340: process_gnews raises on an article; the loop has no handler and the
\* script ends with a traceback
GNewsProcessingRaises ==
    /\ pc = "gnews"
    /\ LET articles == Items(upstream[GNEWS])
       IN  \E n \in 1..Len(articles) : gnews_raises(articles[n])
    /\ fetched' = fetched \cup {GNEWS}
    /\ pc' = "crashed"
    /\ UNCHANGED <<run, backfill, upstream, store, existing_links, existing_sigs,
                   new_rows, final_rows, src, b, i, store0, rejected, hdr, last,
                   forced, startup, fallback, cands, raws>>

\* lines 355-370: one RSS feed; a feed that fails to parse, or whose processing
\* raises, contributes no rows
CollectRss ==
    /\ pc = "rss"
    /\ src <= Len(RSS_FEEDS)
    /\ LET source == RSS_FEEDS[src]
           entries == Items(upstream[source])
           rss_rows == IF rss_raises(entries) THEN <<>> ELSE process_rss(source, entries)
       IN  /\ new_rows' = new_rows \o MapRows(SelectSeq(rss_rows, KeepRow))
           /\ fetched' = fetched \cup {source}
           /\ cands' = cands \o rss_rows
           /\ raws' = raws \o (IF rss_raises(entries) THEN <<>> ELSE RssRaw(entries))
    /\ src' = IF src = Len(RSS_FEEDS) THEN 1 ELSE src + 1
    /\ pc' = IF src = Len(RSS_FEEDS) THEN "html" ELSE "rss"
    /\ UNCHANGED <<run, backfill, upstream, store, existing_links, existing_sigs,
                   final_rows, b, i, store0, rejected, hdr, last,
                   forced, startup, fallback>>

\* lines 375-390: one HTML source
CollectHtml ==
    /\ pc = "html"
    /\ src <= Len(HTML_SOURCES)
    /\ LET source == HTML_SOURCES[src]
           html_rows == extract_headlines_from_page(source.name, source.base_url,
                                                    upstream[source.name])
       IN  /\ new_rows' = new_rows \o MapRows(SelectSeq(html_rows, KeepRow))
           /\ fetched' = fetched \cup {source.name}
           /\ cands' = cands \o html_rows
           /\ raws' = raws \o HtmlRaw(source.base_url, upstream[source.name], html_rows)
    /\ src' = IF src = Len(HTML_SOURCES) THEN 1 ELSE src + 1
    /\ pc' = IF src = Len(HTML_SOURCES) THEN "dedupe" ELSE "html"
    /\ UNCHANGED <<run, backfill, upstream, store, existing_links, existing_sigs,
                   final_rows, b, i, store0, rejected, hdr, last,
                   forced, startup, fallback>>

\* ------------------------------------------------------------- dedupe
\* Dedupe that never remembers a link
RECURSIVE DedupeSigsOnly(_, _, _, _)
DedupeSigsOnly(rows, seen_links_local, seen_sigs_local, acc) ==
    IF rows = <<>> THEN acc
    ELSE LET r == Head(rows)
             link_norm == Strip(r[5])
             sig == <<Strip(r[1]), Strip(r[2])>>
             out == Row(r[1], r[2], r[3], r[4], link_norm, r[6])
         IN  IF link_norm = <<>> /\ sig \in seen_sigs_local
             THEN DedupeSigsOnly(Tail(rows), seen_links_local, seen_sigs_local, acc)
             ELSE DedupeSigsOnly(Tail(rows), seen_links_local,
                                 seen_sigs_local \cup {sig}, Append(acc, out))

\* lines 393-408: keep the first row of every link, or of every signature when
\* the link is empty
RECURSIVE Dedupe(_, _, _, _)
Dedupe(rows, seen_links_local, seen_sigs_local, acc) ==
    IF rows = <<>> THEN acc
    ELSE LET r == Head(rows)
             link_norm == Strip(r[5])
             sig == <<Strip(r[1]), Strip(r[2])>>
             out == Row(r[1], r[2], r[3], r[4], link_norm, r[6])
         IN  IF link_norm # <<>>
             THEN IF link_norm \in seen_links_local
                  THEN Dedupe(Tail(rows), seen_links_local, seen_sigs_local, acc)
                  ELSE Dedupe(Tail(rows), seen_links_local \cup {link_norm},
                              seen_sigs_local, Append(acc, out))
             ELSE IF sig \in seen_sigs_local
                  THEN Dedupe(Tail(rows), seen_links_local, seen_sigs_local, acc)
                  ELSE Dedupe(Tail(rows), seen_links_local,
                              seen_sigs_local \cup {sig}, Append(acc, out))

DedupeNewRows ==
    /\ pc = "dedupe"
    /\ final_rows' = Dedupe(new_rows, {}, {}, <<>>)
    /\ pc' = "append"
    /\ UNCHANGED <<run, backfill, upstream, store, existing_links, existing_sigs,
                   new_rows, src, b, i, store0, fetched, rejected, hdr, last,
                   forced, startup, fallback, cands, raws>>

\* ------------------------------------------------------------- append
Min(x, y) == IF x < y THEN x ELSE y

\* final_rows[b : b + BATCH]
Batch == SubSeq(final_rows, b + 1, Min(b + BATCH, Len(final_rows)))

\* where the script goes once the batch starting at b is dealt with
AfterBatch == IF b + BATCH >= Len(final_rows) THEN "done" ELSE "batch"

\* lines 413-414: nothing to append
NoNewMentions ==
    /\ pc = "append"
    /\ final_rows = <<>>
    /\ pc' = "done"
    /\ UNCHANGED <<run, backfill, upstream, store, existing_links, existing_sigs,
                   new_rows, final_rows, src, b, i, store0, fetched, rejected, hdr, last,
                   forced, startup, fallback, cands, raws>>

\* lines 417-420: the sheet has no values and the header row is appended
WriteHeader ==
    /\ pc = "append"
    /\ final_rows # <<>>
    /\ Len(store) = 0
    /\ store' = Append(store, HEADERS)
    /\ hdr' = "written"
    /\ pc' = "batch"
    /\ UNCHANGED <<run, backfill, upstream, existing_links, existing_sigs,
                   new_rows, final_rows, src, b, i, store0, fetched, rejected, last,
                   forced, startup, fallback, cands, raws>>

\* lines 417-423: the sheet has no values and reading it or appending the header
\* raises; the exception is ignored
WriteHeaderFails ==
    /\ pc = "append"
    /\ final_rows # <<>>
    /\ Len(store) = 0
    /\ hdr' = "failed"
    /\ pc' = "batch"
    /\ UNCHANGED <<run, backfill, upstream, store, existing_links, existing_sigs,
                   new_rows, final_rows, src, b, i, store0, fetched, rejected, last,
                   forced, startup, fallback, cands, raws>>

\* lines 417-423: the sheet has values, no header is written
SkipHeader ==
    /\ pc = "append"
    /\ final_rows # <<>>
    /\ Len(store) # 0
    /\ pc' = "batch"
    /\ UNCHANGED <<run, backfill, upstream, store, existing_links, existing_sigs,
                   new_rows, final_rows, src, b, i, store0, fetched, rejected, hdr, last,
                   forced, startup, fallback, cands, raws>>

\* AppendBatch that rewrites the sheet
AppendBatchRewrites ==
    /\ pc = "batch"
    /\ store' = <<HEADERS>> \o Batch
    /\ b' = b + BATCH
    /\ pc' = IF b + BATCH >= Len(final_rows) THEN "done" ELSE "batch"
    /\ UNCHANGED <<run, backfill, upstream, existing_links, existing_sigs,
                   new_rows, final_rows, src, i, store0, fetched, rejected, hdr, last,
                   forced, startup, fallback, cands, raws>>

\* lines 427-431: append_rows takes the whole batch
AppendBatch ==
    /\ pc = "batch"
    /\ store' = store \o Batch
    /\ b' = b + BATCH
    /\ pc' = AfterBatch
    /\ UNCHANGED <<run, backfill, upstream, existing_links, existing_sigs,
                   new_rows, final_rows, src, i, store0, fetched, rejected, hdr, last,
                   forced, startup, fallback, cands, raws>>

\* lines 432-434: append_rows raises, the batch goes row by row
AppendBatchFails ==
    /\ pc = "batch"
    /\ i' = 1
    /\ fallback' = TRUE
    /\ pc' = "rows"
    /\ UNCHANGED <<run, backfill, upstream, store, existing_links, existing_sigs,
                   new_rows, final_rows, src, b, store0, fetched, rejected, hdr, last,
                   forced, startup, cands, raws>>

\* the bookkeeping of one step of the row-by-row loop
NextRow ==
    /\ i' = IF i = Len(Batch) THEN 1 ELSE i + 1
    /\ b' = IF i = Len(Batch) THEN b + BATCH ELSE b
    /\ pc' = IF i = Len(Batch) THEN AfterBatch ELSE "rows"

\* lines 435-437: append_row takes the row
AppendRow ==
    /\ pc = "rows"
    /\ store' = Append(store, Batch[i])
    /\ NextRow
    /\ UNCHANGED <<run, backfill, upstream, existing_links, existing_sigs,
                   new_rows, final_rows, src, store0, fetched, rejected, hdr, last,
                   forced, startup, fallback, cands, raws>>

\* AppendRowFails that gives the batch up
AppendRowFailsAborts ==
    /\ pc = "rows"
    /\ rejected' = rejected \cup {b + i}
    /\ i' = 1
    /\ b' = b + BATCH
    /\ pc' = IF b + BATCH >= Len(final_rows) THEN "done" ELSE "batch"
    /\ UNCHANGED <<run, backfill, upstream, store, existing_links, existing_sigs,
                   new_rows, final_rows, src, store0, fetched, hdr, last,
                   forced, startup, fallback, cands, raws>>

\* lines 438-439: append_row raises, the row is logged and skipped
AppendRowFails ==
    /\ pc = "rows"
    /\ rejected' = rejected \cup {b + i}
    /\ NextRow
    /\ UNCHANGED <<run, backfill, upstream, store, existing_links, existing_sigs,
                   new_rows, final_rows, src, store0, fetched, hdr, last,
                   forced, startup, fallback, cands, raws>>

\* ------------------------------------------------------------- behaviours
Run ==
    \/ CollectGNews
    \/ GNewsProcessingRaises
    \/ CollectRss
    \/ CollectHtml
    \/ DedupeNewRows
    \/ NoNewMentions
    \/ WriteHeader
    \/ WriteHeaderFails
    \/ SkipHeader
    \/ AppendBatch
    \/ AppendBatchFails
    \/ AppendRow
    \/ AppendRowFails

Next ==
    \/ MissingCredentials
    \/ OpenSheetFails
    \/ ReadRecordsFails
    \/ Startup
    \/ Run

NextRuns ==
    \/ MissingCredentialsAgain
    \/ OpenSheetFailsAgain
    \/ ReadRecordsFailsAgain
    \/ StartupAgain
    \/ Run

\* one run of the script
Spec == Init /\ [][Next]_vars

\* up to MaxRuns runs of the script, one after the other
SpecRuns == Init /\ [][NextRuns]_vars

\* ============================================================= properties
AfterDedupe == pc \in {"append", "batch", "rows", "done"}

\* the dedup key of a row: its link, or (title, published) when it has none
Key(row) ==
    IF Strip(row[5]) # <<>> THEN <<"link", Strip(row[5])>>
    ELSE <<"sig", Strip(row[1]), Strip(row[2])>>

NoSharedLink(values) ==
    \A m, n \in 1..Len(values) :
        m < n /\ values[m][5] # <<>> => values[m][5] # values[n][5]

NoSharedSig(values) ==
    \A m, n \in 1..Len(values) :
        m < n /\ values[m][5] = <<>> /\ values[n][5] = <<>>
            => <<values[m][1], values[m][2]>> # <<values[n][1], values[n][2]>>

\* the header row begins the sheet
Headed(values) == values # <<>> /\ values[1] = HEADERS

\* the record rows this run has appended so far
WrittenRows ==
    SubSeq(store, Len(store0) + (IF hdr = "written" THEN 1 ELSE 0) + 1, Len(store))

RECURSIVE KeptRows(_, _, _)
KeptRows(rows, n, rej) ==
    IF n = 0 THEN <<>>
    ELSE KeptRows(rows, n - 1, rej) \o (IF n \in rej THEN <<>> ELSE <<rows[n]>>)

\* how many rows of final_rows the writer has attempted
Attempted ==
    IF pc = "rows" THEN b + i - 1
    ELSE IF pc = "done" THEN Len(final_rows) ELSE b

\* the sheet as the write of the record rows found it
Base == store0 \o (IF hdr = "written" THEN <<HEADERS>> ELSE <<>>)

\* C5: once a batch write has failed, the run goes on to its end, and the sheet
\* has gained, in batch order and once each, exactly the attempted rows whose
\* own write did not fail.
C5_RowByRowFallback ==
    fallback =>
        /\ pc \in {"rows", "batch", "done"}
        /\ store = Base \o KeptRows(final_rows, Attempted, rejected)

\* the write of a batch of five rows failed, the third row was rejected, and
\* the run ended with rows 1, 2, 4 and 5 added to the sheet
C5_Witness ==
    /\ pc = "done" /\ fallback
    /\ Len(final_rows) = 5 /\ rejected = {3}
    /\ store = Base \o <<final_rows[1], final_rows[2], final_rows[4], final_rows[5]>>

\* C6: the sheet as the run found it is a prefix of the sheet at every later
\* moment of the run.
C6_AppendOnly ==
    /\ Len(store0) <= Len(store)
    /\ SubSeq(store, 1, Len(store0)) = store0

\* a run on a sheet that held records ended after the fallback had written some
\* rows and lost others
C6_Witness ==
    /\ pc = "done" /\ Len(store0) > 1 /\ Len(store) > Len(store0)
    /\ fallback /\ rejected # {}

\* what a source yields when nothing fails, as rows for the check against the
\* sheet
SourceRaises(s) ==
    IF s = GNEWS THEN \E n \in 1..Len(Items(upstream[s])) : gnews_raises(Items(upstream[s])[n])
    ELSE rss_raises(Items(upstream[s]))

SourceFailed(s) == ~upstream[s].ok \/ SourceRaises(s)

SourceRows(s) ==
    IF s = GNEWS
    THEN SelectSeq([n \in 1..Len(Items(upstream[s])) |-> process_gnews(Items(upstream[s])[n])],
                   RelevantGNews)
    ELSE IF \E k \in 1..Len(RSS_FEEDS) : RSS_FEEDS[k] = s
    THEN process_rss(s, Items(upstream[s]))
    ELSE LET h == CHOOSE k \in 1..Len(HTML_SOURCES) : HTML_SOURCES[k].name = s
         IN  extract_headlines_from_page(s, HTML_SOURCES[h].base_url, upstream[s])

\* C7 as stated: no failure of a source ends the run, every source is fetched,
\* and the candidates of the sources that did not fail reach the dedup engine.
C7_SourceFailureConfined ==
    /\ startup = "ok" => pc # "crashed"
    /\ pc = "dedupe" =>
          /\ fetched = SourceNames
          /\ \A s \in SourceNames :
                ~SourceFailed(s) =>
                    \A n \in 1..Len(SourceRows(s)) :
                        ~StoreCheck(SourceRows(s)[n]) =>
                            \E m \in 1..Len(new_rows) :
                                new_rows[m] = Collected(SourceRows(s)[n])

\* C8: without credentials, or without the sheet, the run is in its error state,
\* has fetched no source and has written nothing.
C8_FatalStartup ==
    startup \in {"no credentials", "sheet not opened"} =>
        pc = "exit1" /\ fetched = {} /\ store = store0

\* the sheet could not be opened
C8_Witness == startup = "sheet not opened" /\ pc = "exit1" /\ fetched = {}

\* C9 as stated: a run that appended records to a sheet it found empty leaves
\* the header row as the first row.
C9_HeaderFirst ==
    pc = "done" /\ store0 = <<>> /\ store # <<>> => store[1] = HEADERS

Years == {2024, 2025}

\* the texts of the valid calendar dates, as YYYY-MM-DD
ValidDates ==
    UNION { {strftime([nat |-> FALSE, y |-> y, m |-> m, d |-> d]) :
                d \in 1..DaysInMonth(y, m)} : y \in Years, m \in 1..12 }

\* the raw date texts of the GNews and RSS entries of this run, stripped
RawDates ==
    UNION { {Strip(Items(upstream[s])[n].published) : n \in 1..Len(Items(upstream[s]))} :
              s \in SourceNames \ HtmlNames }

\* C10 as stated: every record written has a published field that is empty or
\* a valid calendar date in YYYY-MM-DD form.
C10_PublishedCanonical ==
    \A n \in 1..Len(WrittenRows) :
        WrittenRows[n][2] = <<>> \/ WrittenRows[n][2] \in ValidDates

\* C10 amended: every record written has a published field that is empty, a
\* valid calendar date in YYYY-MM-DD form or, in a GNews or RSS record, the raw
\* date text of an entry when that text does not parse; an HTML record has only
\* the first two.
C10_PublishedCanonicalOrRaw ==
    \A n \in 1..Len(WrittenRows) :
        LET published == WrittenRows[n][2]
        IN  \/ published = <<>>
            \/ published \in ValidDates
            \/ /\ WrittenRows[n][3] \notin {<<h>> : h \in HtmlNames}
               /\ isna(to_datetime(published))
               /\ published \in RawDates

\* a run wrote a record whose date was converted from the RFC-822 text and a
\* record that kept a raw text
C10_Witness ==
    /\ pc = "done" /\ Len(WrittenRows) = 2
    /\ WrittenRows[1][2] = <<"2025-01-03">> /\ WrittenRows[1][5] # <<>>
    /\ WrittenRows[2][2] = <<"unknown">>

\* C11 as stated: whichever adapter made it, a candidate whose date text is not
\* empty and does not parse carries that text, unchanged, as its published
\* field.
C11_FallbackDate ==
    \A n \in 1..Len(cands) :
        raws[n] # <<>> /\ isna(to_datetime(raws[n]))
            => cands[n][2] = raws[n] /\ cands[n][2] # <<>>

\* the source column of the rows of a source
SourceLabel(s) == IF s = GNEWS THEN <<"Daily", " ", "Nation">> ELSE <<s>>

\* the link column of the row a source makes of an entry
SourceLink(s, a) ==
    IF s \in HtmlNames
    THEN make_absolute((CHOOSE h \in {HTML_SOURCES[k] : k \in 1..Len(HTML_SOURCES)} :
                           h.name = s).base_url, a.link)
    ELSE Strip(a.link)

\* the entry passes the keyword filter of its adapter (and, on an HTML page,
\* has a headline and a link)
PassesFilter(s, a) ==
    IF s \in HtmlNames
    THEN Strip(a.title) # <<>> /\ contains_keywords(Strip(a.title))
                              /\ SourceLink(s, a) # <<>>
    ELSE RssRelevant(a)

\* the text the adapter of s hands to the classifier for an entry
ScoredText(s, a) ==
    LET summary == IF s \in HtmlNames /\ ~upstream[s].pages THEN <<>> ELSE Strip(a.summary)
    IN  IF summary # <<>> THEN summary ELSE Strip(a.title)

Tonalities == {<<"Positive">>, <<"Neutral">>, <<"Negative">>}

\* C12 as stated: a scorer failure never ends the run; once every source is
\* collected, every entry that passed its adapter's filter is a candidate, with
\* tonality Neutral when the scorer failed on its text; and every record
\* written has one of the three tonalities.
C12_ScorerFailureIsNeutral ==
    /\ startup = "ok" => pc # "crashed"
    /\ pc = "dedupe" =>
          \A s \in SourceNames : \A n \in 1..Len(Items(upstream[s])) :
              LET a == Items(upstream[s])[n]
              IN  upstream[s].ok /\ PassesFilter(s, a) =>
                      \E m \in 1..Len(cands) :
                          /\ cands[m][3] = SourceLabel(s)
                          /\ cands[m][1] = Strip(a.title)
                          /\ cands[m][5] = SourceLink(s, a)
                          /\ ScorerRaises(ScoredText(s, a)) => cands[m][6] = <<"Neutral">>
    /\ \A n \in 1..Len(WrittenRows) : WrittenRows[n][6] \in Tonalities

\* the summary the adapter of s has for an entry: on an HTML source it comes
\* from the article page
SourceSummary(s, a) ==
    IF s \in HtmlNames /\ ~upstream[s].pages THEN <<>> ELSE Strip(a.summary)

\* the run took the entry of source s as a relevant candidate
IsCandidate(s, a) ==
    \E m \in 1..Len(cands) :
        /\ cands[m][3] = SourceLabel(s)
        /\ cands[m][1] = Strip(a.title)
        /\ cands[m][4] = SourceSummary(s, a)

\* C13 as stated: once every source is collected, an entry of a source that
\* did not fail (on an HTML page: an anchor with a link) is a candidate exactly
\* when the keyword test on its title and summary together is true, whichever
\* adapter read it.
C13_SameFilterForAllAdapters ==
    pc = "dedupe" =>
        \A s \in SourceNames : \A n \in 1..Len(Items(upstream[s])) :
            LET a == Items(upstream[s])[n]
            IN  ~SourceFailed(s) /\ (s \in HtmlNames => SourceLink(s, a) # <<>>) =>
                    (IsCandidate(s, a) <=>
                        contains_keywords(Strip(a.title) \o <<" ">> \o SourceSummary(s, a)))

\* line 410: the count the run prints last, "Final deduped new rows to append"
ReportedCount == Len(final_rows)

\* C14 as stated: when the run has ended, the count it reported is the number
\* of record rows it added to the sheet.
C14_ReportedCountIsAppended == pc = "done" => ReportedCount = Len(WrittenRows)

\* C15: once the run has deduplicated, every row of the final batch is a
\* relevant candidate; with --backfill every candidate's key, in the sheet or
\* not, is the key of exactly one row of the final batch; without --backfill no
\* row of the final batch is held by the check against the sheet.
C15_BackfillSkipsOnlyStoreCheck ==
    AfterDedupe =>
        /\ \A m \in 1..Len(final_rows) :
              \E n \in 1..Len(cands) : final_rows[m] = Collected(cands[n])
        /\ backfill =>
              \A n \in 1..Len(cands) :
                  Cardinality({m \in 1..Len(final_rows) :
                                  Key(final_rows[m]) = Key(cands[n])}) = 1
        /\ ~backfill => \A m \in 1..Len(final_rows) : ~InStore(final_rows[m])

\* a run with --backfill met the same key twice, a key the sheet already held,
\* and appended one row
C15_Witness ==
    /\ pc = "done" /\ backfill /\ Len(WrittenRows) = 1
    /\ \E m, n \in 1..Len(cands) :
          m < n /\ Key(cands[m]) = Key(cands[n]) /\ InStore(cands[n])

\* the sheet the run started from has a record without a link and with the
\* (title, published) of row
LinklessTwin(row) ==
    \E k \in 1..Len(RecordRows(store0)) :
        LET rec == RecordRows(store0)[k]
        IN  /\ Strip(rec[5]) = <<>>
            /\ Strip(rec[1]) = Strip(row[1])
            /\ Strip(rec[2]) = Strip(row[2])

\* the sheet the run started from has a record with the link of row
LinkTwin(row) ==
    \E k \in 1..Len(RecordRows(store0)) : Strip(RecordRows(store0)[k][5]) = Strip(row[5])

\* the key of row is the key of a row of the final batch
Accepted(row) == \E m \in 1..Len(final_rows) : Key(final_rows[m]) = Key(row)

\* C16 as stated: in a run without --backfill that has deduplicated, a
\* candidate without a link is missing from the final batch exactly when the
\* sheet held a record without a link and with its (title, published), and a
\* candidate with a link that the sheet did not hold is in the final batch.
C16_SigsOfLinklessRecordsOnly ==
    AfterDedupe /\ ~backfill =>
        \A n \in 1..Len(cands) :
            IF Strip(cands[n][5]) = <<>>
            THEN ~Accepted(cands[n]) <=> LinklessTwin(cands[n])
            ELSE ~LinkTwin(cands[n]) => Accepted(cands[n])

====
